---------------------------- MODULE Spec2Model ----------------------------
(***************************************************************************)
(* A model of the adaptive response-policy engine of PhishGuard            *)
(* (Agents/agents/intelligence/reinforcement_learning_agent.py): the       *)
(* state encoder, the epsilon-greedy selector, the action executor, the    *)
(* reward calculator, the replay memory and the trainer, together with     *)
(* the per-incident pipeline ReinforcementLearningAgent.process.           *)
(*                                                                         *)
(* Numbers.  Python floats are modelled in fixed point:                    *)
(*   - entries of a state vector are thousandths (0.9 is 900);             *)
(*   - rewards are tenths (+1.0 is 10, -0.1 is -1);                        *)
(*   - epsilon and the random draw are multiples of 1/EpsUnit.             *)
(* Values of the loosely typed input dictionaries are tagged records       *)
(* [t |-> type, v |-> content]; a dictionary is a function from a set of   *)
(* keys (strings) to values.                                               *)
(***************************************************************************)
EXTENDS Integers, Sequences, FiniteSets, TLC

(***************************************************************************)
(* Program constants (ReinforcementLearningAgent.__init__).                *)
(***************************************************************************)
state_size == 20
action_size == 5

(***************************************************************************)
(* Bounds of the model.  The learning hyper-parameters are scaled down so  *)
(* that eviction, training, the epsilon floor and the target sync all      *)
(* happen within a few incidents; the source values are in the comments.   *)
(***************************************************************************)
memory_size == 2        \* capacity of the replay memory (source: 10000)
batch_size == 2         \* size of a training batch (source: 64)
min_experiences == 2    \* experiences needed before training (source: 1000)
update_frequency == 2   \* steps between two target syncs (source: 100)
EpsUnit == 8            \* epsilon 1.0 is EpsUnit units
epsilon_min == 3        \* the floor, in units (source: 0.01)
epsilon_decay == 4      \* the decay rate, in units (source: 0.995)
MaxNet == 1             \* parameter vectors of a network are 0..MaxNet
MaxIncidents == 3       \* incidents handed to process() in one behaviour
MaxCalls == 2           \* process() calls that may be in flight at once

epsilon_start == EpsUnit

Actions == 0 .. (action_size - 1)
Nets == 0 .. MaxNet
Calls == 1 .. MaxCalls
\* The design assumes a single caller of process(): one call at a time.
Callers == {c \in Calls : c <= 1}

(***************************************************************************)
(* Tagged values of the Python dictionaries.                               *)
(***************************************************************************)
Num(n) == [t |-> "num", v |-> n]
List(n) == [t |-> "list", v |-> n]        \* a list of n elements
Bool(b) == [t |-> "bool", v |-> IF b THEN 1 ELSE 0]
Str(s) == [t |-> "str", v |-> s]
NoneVal == [t |-> "none", v |-> 0]
EmptyDict == [k \in {} |-> NoneVal]

\* A dictionary has keys; a tagged value has the fields t and v.
IsDict(x) == "t" \notin DOMAIN x

\* dict.get(key, default)
Get(d, key, default) == IF key \in DOMAIN d THEN d[key] ELSE default

\* len(x) is defined on lists and strings and raises TypeError otherwise.
LenOk(x) == x.t \in {"list", "str"}
LenOf(x) == IF x.t = "str" THEN Len(x.v) ELSE x.v

\* x / n and x > n are defined on numbers (bool is a number) and raise otherwise.
IsNumber(x) == x.t \in {"num", "bool"}

\* Python truthiness of a value.
Truthy(x) ==
    CASE x.t = "num" -> x.v # 0
      [] x.t = "bool" -> x.v # 0
      [] x.t = "list" -> x.v # 0
      [] x.t = "str" -> x.v # ""
      [] OTHER -> FALSE

\* The result of deriving one block of features: the values, or an exception.
Raised == [ok |-> FALSE, vals |-> << >>]
Derived(vals) == [ok |-> TRUE, vals |-> vals]

(***************************************************************************)
(* _extract_state, lines 151-212.  The five blocks are derived in order    *)
(* inside ONE try statement.                                               *)
(***************************************************************************)
\* Email features (6 features), lines 157-165.
EmailBlock(data) ==
    LET ea == Get(data, "email_analysis", EmptyDict) IN
    IF ~IsDict(ea) THEN Raised
    ELSE LET si == Get(ea, "suspicious_indicators", List(0))
             at == Get(ea, "attachments", List(0))
             ln == Get(ea, "links", List(0))
         IN  IF ~LenOk(si) \/ ~LenOk(at) \/ ~LenOk(ln) THEN Raised
             ELSE Derived(<< Num((LenOf(si) * 1000) \div 10),
                             Get(ea, "authentication_score", Num(0)),
                             Get(ea, "similarity_score", Num(0)),
                             Get(ea, "urgency_score", Num(0)),
                             Num((LenOf(at) * 1000) \div 5),
                             Num((LenOf(ln) * 1000) \div 10) >>)

\* Domain features (4 features), lines 168-174.
DomainBlock(data) ==
    LET da == Get(data, "domain_analysis", EmptyDict) IN
    IF ~IsDict(da) THEN Raised
    ELSE Derived(<< Get(da, "age_score", Num(0)),
                    Get(da, "reputation_score", Num(0)),
                    Get(da, "similarity_score", Num(0)),
                    IF Truthy(Get(da, "is_suspicious", NoneVal))
                    THEN Num(1000) ELSE Num(0) >>)

\* Threat intelligence features (4 features), lines 177-183.
ThreatBlock(data) ==
    LET ti == Get(data, "threat_intelligence", EmptyDict) IN
    IF ~IsDict(ti) THEN Raised
    ELSE LET ma == Get(ti, "matches", List(0))
             ca == Get(ti, "campaigns", List(0))
         IN  IF ~LenOk(ma) \/ ~LenOk(ca) THEN Raised
             ELSE Derived(<< Get(ti, "risk_score", Num(0)),
                             Num((LenOf(ma) * 1000) \div 10),
                             Num((LenOf(ca) * 1000) \div 5),
                             Get(ti, "confidence", Num(0)) >>)

\* Historical features (4 features), lines 186-192.
HistoryBlock(data) ==
    LET hi == Get(data, "historical_data", EmptyDict) IN
    IF ~IsDict(hi) THEN Raised
    ELSE LET pi == Get(hi, "previous_incidents", Num(0))
             rt == Get(hi, "average_response_time", Num(0))
         IN  IF ~IsNumber(pi) \/ ~IsNumber(rt) THEN Raised
             ELSE Derived(<< Num((pi.v * 1000) \div 10),
                             Get(hi, "success_rate", Num(0)),
                             Get(hi, "false_positive_rate", Num(0)),
                             Num((rt.v * 1000) \div 3600) >>)

\* User context features (2 features), lines 195-199.
UserBlock(data) ==
    LET uc == Get(data, "user_context", EmptyDict) IN
    IF ~IsDict(uc) THEN Raised
    ELSE Derived(<< Get(uc, "risk_level", Num(0)),
                    IF Truthy(Get(uc, "is_targeted", NoneVal))
                    THEN Num(1000) ELSE Num(0) >>)

Blocks(data) ==
    << EmailBlock(data), DomainBlock(data), ThreatBlock(data),
       HistoryBlock(data), UserBlock(data) >>

\* The vector as far as it was built when the first block raised.
UnfilledVector == << >>

\* [0.0] * self.state_size, line 204.
ZeroVector == [i \in 1 .. state_size |-> Num(0)]

\* Lines 206-210: the vector is padded with 0.0 or cut to state_size.
Fit(state) ==
    IF Len(state) < state_size
    THEN state \o [i \in 1 .. (state_size - Len(state)) |-> Num(0)]
    ELSE SubSeq(state, 1, state_size)

\* An encoder with one try statement per block.
extract_state_per_block(data) ==
    LET b == Blocks(data)
        zeros(n) == [i \in 1 .. n |-> Num(0)]
        part(i, n) == IF b[i].ok THEN b[i].vals ELSE zeros(n)
    IN  Fit(part(1, 6) \o part(2, 4) \o part(3, 4) \o part(4, 4) \o part(5, 2))

extract_state(data) ==
    LET b == Blocks(data) IN
    IF \E i \in 1 .. 5 : ~b[i].ok
    THEN ZeroVector
    ELSE Fit(b[1].vals \o b[2].vals \o b[3].vals \o b[4].vals \o b[5].vals)

(***************************************************************************)
(* _calculate_reward, lines 268-298.  Rewards are tenths.  The comparison  *)
(* processing_time > 60 raises TypeError on a value that is no number; the *)
(* except clause then returns 0.0 for the whole record.                    *)
(***************************************************************************)
StatusTerm(result) ==
    LET status == Get(result, "status", NoneVal) IN
    IF status = Str("success") THEN 10
    ELSE IF status = Str("failed") THEN -10 ELSE 0

OutcomeTerm(result) ==
    (IF Truthy(Get(result, "prevented_attack", NoneVal)) THEN 20 ELSE 0)
    + (IF Truthy(Get(result, "false_positive", NoneVal)) THEN -20 ELSE 0)

FeedbackTerm(result) ==
    LET fb == Get(result, "user_feedback", NoneVal) IN
    IF fb = Str("positive") THEN 5
    ELSE IF fb = Str("negative") THEN -5 ELSE 0

\* The penalty from 60 seconds on.
TimeTermFrom60(result) ==
    LET processing_time == Get(result, "processing_time", Num(0)) IN
    IF processing_time.v >= 60 THEN -1 ELSE 0

\* Lines 290-292: the key read is 'processing_time', its default 0.
TimeTerm(result) ==
    LET processing_time == Get(result, "processing_time", Num(0)) IN
    IF processing_time.v > 60 THEN -1 ELSE 0

\* A reward clamped to [-1.0, 1.0].
calculate_reward_clamped(result) ==
    LET sum == StatusTerm(result) + OutcomeTerm(result)
               + FeedbackTerm(result) + TimeTerm(result)
    IN  IF ~IsNumber(Get(result, "processing_time", Num(0))) THEN 0
        ELSE IF sum > 10 THEN 10 ELSE IF sum < -10 THEN -10 ELSE sum

calculate_reward(result) ==
    IF ~IsNumber(Get(result, "processing_time", Num(0)))
    THEN 0
    ELSE StatusTerm(result) + OutcomeTerm(result) + FeedbackTerm(result)
         + TimeTerm(result)

(***************************************************************************)
(* The networks.  DQN (lines 18-31) is a three-layer perceptron; the model *)
(* keeps of it a parameter vector out of Nets and a forward pass that      *)
(* gives one value per action, depending on the parameters and the state.  *)
(***************************************************************************)
\* torch.FloatTensor(state), lines 92 and 310-313: every entry must be a number.
IsNumeric(state) == \A i \in 1 .. Len(state) : IsNumber(state[i])

Feature(state) == Cardinality({i \in 1 .. Len(state) : state[i].v # 0})

forward(net, state) ==
    [a \in Actions |-> ((a + 1) * net + Feature(state)) % action_size]

\* tensor.max(1)[1]: the index of the first maximal value.
ArgMax(q) ==
    CHOOSE a \in Actions :
        /\ \A b \in Actions : q[b] <= q[a]
        /\ \A b \in Actions : q[b] = q[a] => a <= b

(***************************************************************************)
(* _select_action, lines 214-220.  draw is random.random(), a multiple of  *)
(* 1/EpsUnit in [0, 1); pick is random.randrange(action_size).             *)
(***************************************************************************)
Greedy(eps, draw) == draw > eps

\* The random index is drawn from one position too far.
select_action_beyond(eps, draw, pick, net, state) ==
    IF Greedy(eps, draw) THEN ArgMax(forward(net, state)) ELSE pick + 1

select_action(eps, draw, pick, net, state) ==
    IF Greedy(eps, draw) THEN ArgMax(forward(net, state)) ELSE pick

Draws == 0 .. (EpsUnit - 1)

(***************************************************************************)
(* The replay memory: deque(maxlen=memory_size), line 62.  append on a     *)
(* full deque discards the element at the left end.                        *)
(***************************************************************************)
\* The outcome's vector is stored in the place of the incident's.
ExperienceOfOutcome(state, action, reward, next_state) ==
    [state |-> next_state, action |-> action, reward |-> reward,
     next_state |-> next_state]

Experience(state, action, reward, next_state) ==
    [state |-> state, action |-> action, reward |-> reward,
     next_state |-> next_state]

\* A memory that never evicts.
deque_append_unbounded(mem, e) == Append(mem, e)

\* A full memory is emptied before the new element goes in.
deque_append_restart(mem, e) ==
    IF Len(mem) >= memory_size THEN << e >> ELSE Append(mem, e)

deque_append(mem, e) ==
    IF Len(mem) >= memory_size
    THEN SubSeq(mem, 2, Len(mem)) \o << e >>
    ELSE Append(mem, e)

\* Line 328: max(self.epsilon_min, self.epsilon * self.epsilon_decay).
Max(a, b) == IF a >= b THEN a ELSE b
\* The decay without the floor.
decayed_no_floor(eps) == (eps * epsilon_decay) \div EpsUnit
\* The decay forgotten.
not_decayed(eps) == eps

\* The floor is taken one unit too high.
decayed_above_floor(eps) ==
    Max(epsilon_min + 1, (eps * epsilon_decay) \div EpsUnit)

decayed(eps) == Max(epsilon_min, (eps * epsilon_decay) \div EpsUnit)

(***************************************************************************)
(* _execute_action, lines 222-261.                                         *)
(***************************************************************************)
\* self.actions, lines 70-76.
ActionName(idx) ==
    CASE idx = 0 -> "block_sender"
      [] idx = 1 -> "quarantine_message"
      [] idx = 2 -> "notify_user"
      [] idx = 3 -> "monitor_sender"
      [] idx = 4 -> "no_action"

\* Lines 234-253: the channel the directive is published on, "" for none.
Channel(action) ==
    CASE action = "block_sender" -> "auto_response"
      [] action = "quarantine_message" -> "auto_response"
      [] action = "notify_user" -> "alert"
      [] action = "monitor_sender" -> "auto_response"
      [] OTHER -> ""

\* Lines 234-253: the response_type or alert_type put into the directive.
Kind(action) ==
    CASE action = "block_sender" -> "block"
      [] action = "quarantine_message" -> "quarantine"
      [] action = "notify_user" -> "user_notification"
      [] action = "monitor_sender" -> "monitor"
      [] OTHER -> ""

\* The directive is published a second time.
DirectivesRepeated(action) ==
    IF Channel(action) = "" THEN << >>
    ELSE << [channel |-> Channel(action), action |-> action,
             kind |-> Kind(action)],
            [channel |-> Channel(action), action |-> action,
             kind |-> Kind(action)] >>

\* Lines 226-253: what _execute_action hands to mq.publish for the action,
\* in order.
Directives(action) ==
    IF Channel(action) = "" THEN << >>
    ELSE << [channel |-> Channel(action), action |-> action,
             kind |-> Kind(action)] >>

\* The outcome of a failure carries the error and no status.
FailedOutcomeUnmarked(e) == [error |-> Str(e)]

\* Line 261: {'status': 'failed', 'error': str(e)}.
FailedOutcome(e) == [status |-> Str("failed"), error |-> Str(e)]

(***************************************************************************)
(* The incidents handed to process(): signal bags of the upstream          *)
(* analyzers.                                                              *)
(***************************************************************************)
FullEmail ==
    [suspicious_indicators |-> List(3), authentication_score |-> Num(900),
     similarity_score |-> Num(200), urgency_score |-> Num(500),
     attachments |-> List(1), links |-> List(2)]
FullDomain ==
    [age_score |-> Num(100), reputation_score |-> Num(300),
     similarity_score |-> Num(800), is_suspicious |-> Bool(TRUE)]
FullThreat ==
    [risk_score |-> Num(700), matches |-> List(2), campaigns |-> List(1),
     confidence |-> Num(600)]
FullHistory ==
    [previous_incidents |-> Num(4), success_rate |-> Num(750),
     false_positive_rate |-> Num(50), average_response_time |-> Num(1800)]
FullUser == [risk_level |-> Num(400), is_targeted |-> Bool(TRUE)]

FullIncident ==
    [incident_id |-> Str("i1"), email_analysis |-> FullEmail,
     domain_analysis |-> FullDomain, threat_intelligence |-> FullThreat,
     historical_data |-> FullHistory, user_context |-> FullUser]
\* A category whose value is no dictionary.
BrokenIncident ==
    [incident_id |-> Str("i3"), email_analysis |-> NoneVal,
     user_context |-> FullUser]
\* A score that is no number: it is copied into the vector as it is.
TextScoreIncident ==
    [incident_id |-> Str("i4"),
     user_context |-> [risk_level |-> Str("high")]]

Incidents == {FullIncident, BrokenIncident, TextScoreIncident}

(***************************************************************************)
(* State.                                                                  *)
(***************************************************************************)
VARIABLES
    memory,         \* self.memory: the experiences, oldest first
    epsilon,        \* self.epsilon, in units of 1/EpsUnit
    steps,          \* self.steps
    episodes,       \* self.episodes
    policy_net,     \* parameters of self.policy_net
    target_net,     \* parameters of self.target_net
    pc,             \* pc[c]: where process() call c stands
    data,           \* data[c]: the incident of call c
    current_state,  \* locals of process(), per call
    action_idx,
    result,
    reward,
    next_state,
    running,        \* the call the event loop is running, 0 when none
    started,        \* incidents handed to process() so far
    probe,          \* input and output of a function applied on its own
    dispatched,     \* dispatched[c]: what call c handed to mq.publish in
                    \* _execute_action, in order
    phase,          \* where the agent object stands in its life
    model_state,    \* the dictionary built by _save_model_state, kept until
                    \* the next agent is initialized
    checkpoint,     \* what the database holds for 'reinforcement_learning'
    _running,       \* self._running (base_agent.py)
    _initialized,   \* self._initialized (base_agent.py)
    initialize_calls,   \* how often initialize() was invoked on the agent
    last_start      \* what the most recent start() did

engine == << memory, epsilon, steps, episodes, policy_net, target_net >>
locals == << data, current_state, action_idx, result, reward, next_state,
             dispatched >>
service == << _running, _initialized, initialize_calls, last_start >>
lifecycle == << phase, model_state, checkpoint, service >>
vars == << engine, locals, pc, running, started, probe, lifecycle >>

NoProbe == [op |-> "none"]

\* The engine after __init__ (lines 36-76), no checkpoint being loaded.
Init ==
    /\ memory = << >>
    /\ epsilon = epsilon_start
    /\ steps = 0
    /\ episodes = 0
    /\ policy_net \in Nets
    /\ target_net = policy_net
    /\ pc = [c \in Calls |-> "idle"]
    /\ data = [c \in Calls |-> EmptyDict]
    /\ current_state = [c \in Calls |-> << >>]
    /\ action_idx = [c \in Calls |-> 0]
    /\ result = [c \in Calls |-> EmptyDict]
    /\ reward = [c \in Calls |-> 0]
    /\ next_state = [c \in Calls |-> << >>]
    /\ running = 0
    /\ started = 0
    /\ dispatched = [c \in Calls |-> << >>]
    /\ phase = "constructed"
    /\ model_state = NoneVal
    /\ checkpoint = NoneVal
    /\ _running = FALSE
    /\ _initialized = FALSE
    /\ initialize_calls = 0
    /\ last_start = "none"
    /\ probe = NoProbe

(***************************************************************************)
(* process(), lines 83-149.  A call runs without interruption from one     *)
(* await on input or output to the next: `running` is the call that holds  *)
(* the event loop.                                                         *)
(***************************************************************************)
\* Lines 86-89: the call starts and encodes the incident, one of `given`.
EncodeIncident(c, given) ==
    /\ pc[c] = "idle"
    /\ running = 0
    /\ \E d \in given :
        /\ data' = [data EXCEPT ![c] = d]
        /\ current_state' = [current_state EXCEPT ![c] = extract_state(d)]
    /\ pc' = [pc EXCEPT ![c] = "tensor"]
    /\ running' = c
    /\ UNCHANGED << engine, action_idx, result, reward, next_state, probe,
                    dispatched, lifecycle >>

\* The caller hands over one of at most MaxIncidents incidents.
ProcessBeginFrom(c, given) ==
    /\ started < MaxIncidents
    /\ started' = started + 1
    /\ EncodeIncident(c, given)

ProcessBegin(c) == ProcessBeginFrom(c, Incidents)

\* Line 92: torch.FloatTensor(current_state) raises on an entry that is no
\* number; lines 147-149 log the error and raise it to the caller.
ToTensor(c) ==
    /\ pc[c] = "tensor"
    /\ running = c
    /\ pc' = [pc EXCEPT ![c] =
                IF IsNumeric(current_state[c]) THEN "select" ELSE "raised"]
    /\ running' = IF IsNumeric(current_state[c]) THEN c ELSE 0
    /\ UNCHANGED << engine, locals, started, probe, lifecycle >>

\* Lines 95-96; random.randrange yields one of `picks`.
SelectActionFrom(c, picks) ==
    /\ pc[c] = "select"
    /\ running = c
    /\ \E draw \in Draws, pick \in picks :
        action_idx' = [action_idx EXCEPT ![c] =
            select_action(epsilon, draw, pick, policy_net, current_state[c])]
    /\ pc' = [pc EXCEPT ![c] = "execute"]
    /\ UNCHANGED << engine, data, current_state, result, reward, next_state,
                    running, started, probe, dispatched, lifecycle >>

SelectAction(c) == SelectActionFrom(c, Actions)

\* Lines 224-253: the directive is handed to mq.publish and the call waits
\* for it; no_action publishes nothing.
ExecuteAction(c) ==
    /\ pc[c] = "execute"
    /\ running = c
    /\ pc' = [pc EXCEPT ![c] =
                IF Channel(ActionName(action_idx[c])) = ""
                THEN "wait" ELSE "publishing"]
    /\ running' = IF Channel(ActionName(action_idx[c])) = "" THEN c ELSE 0
    /\ dispatched' = [dispatched EXCEPT ![c] =
                        dispatched[c] \o Directives(ActionName(action_idx[c]))]
    /\ UNCHANGED << engine, data, current_state, action_idx, result, reward,
                    next_state, started, probe, lifecycle >>

\* mq.publish returns.
PublishReturns(c) ==
    /\ pc[c] = "publishing"
    /\ running = 0
    /\ pc' = [pc EXCEPT ![c] = "wait"]
    /\ running' = c
    /\ UNCHANGED << engine, locals, started, probe, lifecycle >>

\* The exception of mq.publish is not caught.
PublishRaisesUncaught(c) ==
    /\ pc[c] = "publishing"
    /\ running = 0
    /\ pc' = [pc EXCEPT ![c] = "raised"]
    /\ UNCHANGED << engine, locals, running, started, probe, lifecycle >>

\* mq.publish raises (message_queue.py, lines 42-52); lines 259-261 turn the
\* exception into a failed outcome.
PublishRaises(c) ==
    /\ pc[c] = "publishing"
    /\ running = 0
    /\ result' = [result EXCEPT ![c] = FailedOutcome("publish")]
    /\ pc' = [pc EXCEPT ![c] = "reward"]
    /\ running' = c
    /\ UNCHANGED << engine, data, current_state, action_idx, reward,
                    next_state, started, probe, dispatched, lifecycle >>

\* Lines 256 and 263-266: db.get_latest_action_result is looked up on the
\* Database object, which has no such method (database.py, lines 7-67):
\* AttributeError, turned into a failed outcome by lines 259-261.
WaitForActionResult(c) ==
    /\ pc[c] = "wait"
    /\ running = c
    /\ result' = [result EXCEPT ![c] = FailedOutcome("no method")]
    /\ pc' = [pc EXCEPT ![c] = "reward"]
    /\ UNCHANGED << engine, data, current_state, action_idx, reward,
                    next_state, running, started, probe, dispatched,
                    lifecycle >>

\* The next state is not encoded: the push follows the reward at once.
CalculateRewardThenPush(c) ==
    /\ pc[c] = "reward"
    /\ running = c
    /\ reward' = [reward EXCEPT ![c] = calculate_reward(result[c])]
    /\ pc' = [pc EXCEPT ![c] = "push"]
    /\ UNCHANGED << engine, data, current_state, action_idx, result,
                    next_state, running, started, probe, dispatched,
                    lifecycle >>

\* Line 100.
CalculateReward(c) ==
    /\ pc[c] = "reward"
    /\ running = c
    /\ reward' = [reward EXCEPT ![c] = calculate_reward(result[c])]
    /\ pc' = [pc EXCEPT ![c] = "next"]
    /\ UNCHANGED << engine, data, current_state, action_idx, result,
                    next_state, running, started, probe, dispatched,
                    lifecycle >>

\* Line 103.
ExtractNext(c) ==
    /\ pc[c] = "next"
    /\ running = c
    /\ next_state' = [next_state EXCEPT ![c] = extract_state(result[c])]
    /\ pc' = [pc EXCEPT ![c] = "push"]
    /\ UNCHANGED << engine, data, current_state, action_idx, result, reward,
                    running, started, probe, dispatched, lifecycle >>

\* The size is compared before the incident's own experience counts.
enough_experiences_before_push(mem) == Len(mem) > min_experiences

\* Line 114: the condition under which _train is called.
enough_experiences(mem) == Len(mem) >= min_experiences

\* The target is copied on every incident.
sync_always(n) == TRUE

\* Line 119: the condition under which the target network is overwritten.
sync_due(n) == n % update_frequency = 0

\* The call gives up the event loop between the append and the counter.
PushThenYield(c) ==
    /\ pc[c] = "push"
    /\ running = c
    /\ memory' = deque_append(memory,
                    Experience(current_state[c], action_idx[c], reward[c],
                               next_state[c]))
    /\ pc' = [pc EXCEPT ![c] =
                IF enough_experiences(memory') THEN "train" ELSE "step"]
    /\ running' = 0
    /\ UNCHANGED << epsilon, steps, episodes, policy_net, target_net, locals,
                    started, probe, lifecycle >>

\* Lines 106-114: the experience is appended, then the size decides whether
\* _train is called.
Push(c) ==
    /\ pc[c] = "push"
    /\ running = c
    /\ memory' = deque_append(memory,
                    Experience(current_state[c], action_idx[c], reward[c],
                               next_state[c]))
    /\ pc' = [pc EXCEPT ![c] =
                IF enough_experiences(memory') THEN "train" ELSE "step"]
    /\ UNCHANGED << epsilon, steps, episodes, policy_net, target_net, locals,
                    running, started, probe, lifecycle >>

\* _train, lines 300-331, called by line 115.  A batch is sampled, one
\* gradient step moves the policy parameters, then epsilon decays.
Train(c) ==
    /\ pc[c] = "train"
    /\ running = c
    /\ \E trained \in Nets :
        policy_net' = IF Len(memory) < batch_size THEN policy_net ELSE trained
    /\ epsilon' = IF Len(memory) < batch_size THEN epsilon ELSE decayed(epsilon)
    /\ pc' = [pc EXCEPT ![c] = "step"]
    /\ UNCHANGED << memory, steps, episodes, target_net, locals, running,
                    started, probe, lifecycle >>

\* The exception of the training step is not caught.
TrainFailsUncaught(c) ==
    /\ pc[c] = "train"
    /\ running = c
    /\ Len(memory) >= batch_size
    /\ pc' = [pc EXCEPT ![c] = "raised"]
    /\ running' = 0
    /\ UNCHANGED << engine, locals, started, probe, lifecycle >>

\* Lines 330-331: an exception of the tensor library inside the try is
\* logged; the statements after the one that raised are skipped.
TrainFails(c) ==
    /\ pc[c] = "train"
    /\ running = c
    /\ Len(memory) >= batch_size
    /\ pc' = [pc EXCEPT ![c] = "step"]
    /\ UNCHANGED << engine, locals, running, started, probe, lifecycle >>

\* The counter counts training steps: it moves only when _train was called.
StepAndSyncWhenTrained(c) ==
    /\ pc[c] = "step"
    /\ running = c
    /\ steps' = IF enough_experiences(memory) THEN steps + 1 ELSE steps
    /\ target_net' = IF enough_experiences(memory) /\ sync_due(steps')
                     THEN policy_net ELSE target_net
    /\ pc' = [pc EXCEPT ![c] = "storing"]
    /\ running' = 0
    /\ UNCHANGED << memory, epsilon, episodes, policy_net, locals, started,
                    probe, lifecycle >>

\* Lines 118-138: the step counter, the target sync, the response, and the
\* call waits for db.update_analysis_result.
StepAndSyncTo(c, counted) ==
    /\ pc[c] = "step"
    /\ running = c
    /\ steps' = counted
    /\ target_net' = IF sync_due(steps')
                     THEN policy_net ELSE target_net
    /\ pc' = [pc EXCEPT ![c] = "storing"]
    /\ running' = 0
    /\ UNCHANGED << memory, epsilon, episodes, policy_net, locals, started,
                    probe, lifecycle >>

StepAndSync(c) == StepAndSyncTo(c, steps + 1)

\* db.update_analysis_result returns; line 143 and lines 368-371: the call
\* waits for the publish to score_aggregation.
StoreReturns(c) ==
    /\ pc[c] = "storing"
    /\ running = 0
    /\ pc' = [pc EXCEPT ![c] = "notify_score"]
    /\ UNCHANGED << engine, locals, running, started, probe, lifecycle >>

\* The except of process takes the experience and the count of the
\* incident back before it raises.
StoreRaisesRolledBack(c) ==
    /\ pc[c] = "storing"
    /\ running = 0
    /\ memory # << >>
    /\ steps >= 1
    /\ memory' = SubSeq(memory, 1, Len(memory) - 1)
    /\ steps' = steps - 1
    /\ pc' = [pc EXCEPT ![c] = "raised"]
    /\ UNCHANGED << epsilon, episodes, policy_net, target_net, locals,
                    running, started, probe, lifecycle >>

\* db.update_analysis_result raises (database.py, line 48); lines 147-149
\* log the error and raise it to the caller.
StoreRaises(c) ==
    /\ pc[c] = "storing"
    /\ running = 0
    /\ pc' = [pc EXCEPT ![c] = "raised"]
    /\ UNCHANGED << engine, locals, running, started, probe, lifecycle >>

\* Lines 368-374: the first publish returns, the call waits for the publish
\* to logging.
NotifyScoreReturns(c) ==
    /\ pc[c] = "notify_score"
    /\ running = 0
    /\ pc' = [pc EXCEPT ![c] = "notify_log"]
    /\ UNCHANGED << engine, locals, running, started, probe, lifecycle >>

\* Lines 374-382 and 145: the second publish returns, process returns.
NotifyLogReturns(c) ==
    /\ pc[c] = "notify_log"
    /\ running = 0
    /\ pc' = [pc EXCEPT ![c] = "done"]
    /\ UNCHANGED << engine, locals, running, started, probe, lifecycle >>

\* The exception of a publish of the record is not caught.
NotifyRaisesUncaught(c) ==
    /\ pc[c] \in {"notify_score", "notify_log"}
    /\ running = 0
    /\ pc' = [pc EXCEPT ![c] = "raised"]
    /\ UNCHANGED << engine, locals, running, started, probe, lifecycle >>

\* Lines 384-385: an exception of either publish is logged, process returns.
NotifyRaises(c) ==
    /\ pc[c] \in {"notify_score", "notify_log"}
    /\ running = 0
    /\ pc' = [pc EXCEPT ![c] = "done"]
    /\ UNCHANGED << engine, locals, running, started, probe, lifecycle >>

\* The caller has the response or the exception; the slot is free again.
Return(c) ==
    /\ pc[c] \in {"done", "raised"}
    /\ pc' = [pc EXCEPT ![c] = "idle"]
    /\ data' = [data EXCEPT ![c] = EmptyDict]
    /\ current_state' = [current_state EXCEPT ![c] = << >>]
    /\ action_idx' = [action_idx EXCEPT ![c] = 0]
    /\ result' = [result EXCEPT ![c] = EmptyDict]
    /\ reward' = [reward EXCEPT ![c] = 0]
    /\ next_state' = [next_state EXCEPT ![c] = << >>]
    /\ dispatched' = [dispatched EXCEPT ![c] = << >>]
    /\ UNCHANGED << engine, running, started, probe, lifecycle >>

\* The steps of a call that the event loop runs by itself.
Runs(c) ==
    \/ ToTensor(c)
    \/ SelectAction(c)
    \/ ExecuteAction(c)
    \/ WaitForActionResult(c)
    \/ CalculateReward(c)
    \/ ExtractNext(c)
    \/ Push(c)
    \/ Train(c)
    \/ TrainFails(c)
    \/ StepAndSync(c)

\* The steps that need the caller, the broker or the database.
Environment(c) ==
    \/ ProcessBegin(c)
    \/ PublishReturns(c)
    \/ PublishRaises(c)
    \/ StoreReturns(c)
    \/ StoreRaises(c)
    \/ NotifyScoreReturns(c)
    \/ NotifyLogReturns(c)
    \/ NotifyRaises(c)
    \/ Return(c)

Next == \E c \in Callers : Runs(c) \/ Environment(c)

Spec == Init /\ [][Next]_vars

\* The event loop runs a call that can run; nothing in the code bounds the
\* time the broker or the database take.
FairSpec == Spec /\ \A c \in Callers : WF_vars(Runs(c))

(***************************************************************************)
(* Several process() calls in flight on one agent.  The agent has no lock  *)
(* (lines 83-149); the event loop runs one call at a time and switches at  *)
(* the awaits on the broker and the database.                              *)
(***************************************************************************)
ConcCallers == {c \in Calls : c <= 2}
ConcIncidents == {FullIncident}

\* The incidents of concurrent calls: one that is processed to the end and
\* one that raises at the tensor conversion.
ConcGiven == {FullIncident, TextScoreIncident}

ConcBegin(c) == ProcessBeginFrom(c, ConcGiven)

\* The random indices of concurrent calls: block_sender and notify_user,
\* which publish on the two channels, and no_action, which publishes
\* nothing.
ConcPicks == {0, 2, action_size - 1}

ConcSelect(c) == SelectActionFrom(c, ConcPicks)

ConcRuns(c) ==
    \/ ToTensor(c)
    \/ ConcSelect(c)
    \/ ExecuteAction(c)
    \/ WaitForActionResult(c)
    \/ CalculateReward(c)
    \/ ExtractNext(c)
    \/ Push(c)
    \/ Train(c)
    \/ TrainFails(c)
    \/ StepAndSync(c)

ConcEnvironment(c) ==
    \/ ConcBegin(c)
    \/ PublishReturns(c)
    \/ PublishRaises(c)
    \/ StoreReturns(c)
    \/ StoreRaises(c)
    \/ NotifyScoreReturns(c)
    \/ NotifyLogReturns(c)
    \/ NotifyRaises(c)
    \/ Return(c)

ConcNext == \E c \in ConcCallers : ConcRuns(c) \/ ConcEnvironment(c)

ConcSpec == Init /\ [][ConcNext]_vars

(***************************************************************************)
(* Incidents without end, one caller.  The count of incidents is not kept, *)
(* and the step counter is kept modulo update_frequency, which is all that *)
(* line 119 reads of it.                                                   *)
(***************************************************************************)
LiveBegin(c) == EncodeIncident(c, ConcIncidents) /\ UNCHANGED started

LiveStep(c) == StepAndSyncTo(c, (steps + 1) % update_frequency)

LiveRuns(c) ==
    \/ ToTensor(c)
    \/ SelectAction(c)
    \/ ExecuteAction(c)
    \/ WaitForActionResult(c)
    \/ CalculateReward(c)
    \/ ExtractNext(c)
    \/ Push(c)
    \/ Train(c)
    \/ TrainFails(c)
    \/ LiveStep(c)

LiveEnvironment(c) ==
    \/ LiveBegin(c)
    \/ PublishReturns(c)
    \/ PublishRaises(c)
    \/ StoreReturns(c)
    \/ StoreRaises(c)
    \/ NotifyScoreReturns(c)
    \/ NotifyLogReturns(c)
    \/ NotifyRaises(c)
    \/ Return(c)

LiveNext == \E c \in Callers : LiveRuns(c) \/ LiveEnvironment(c)

\* The event loop runs a call that can run.
LiveSpec ==
    Init /\ [][LiveNext]_vars /\ \A c \in Callers : WF_vars(LiveRuns(c))

(***************************************************************************)
(* The life of the agent: constructed, initialized, serving, cleaned up,   *)
(* and a new agent constructed in its place (api/main.py, lines 169-178,   *)
(* is the order in which a host calls initialize, process and cleanup).    *)
(***************************************************************************)
\* The database answers with a dictionary that holds the policy only.
get_model_state_partial(store) == [ok |-> TRUE, val |-> [policy_net |-> 0]]

\* database.py, lines 7-67: the Database class defines no get_model_state,
\* so the attribute lookup of line 336 raises AttributeError whatever the
\* database holds.
get_model_state(store) == [ok |-> FALSE, val |-> NoneVal]

\* Lines 338-343 on the dictionary the database returned: the assignments
\* are made in order, and a key that is missing ends them (KeyError, lines
\* 345-346); epsilon, steps and episodes have defaults.
load_model_state(cur, ms) ==
    IF "policy_net" \notin DOMAIN ms THEN cur
    ELSE LET p == [cur EXCEPT !.policy_net = ms.policy_net] IN
         IF "target_net" \notin DOMAIN ms THEN p
         ELSE LET t == [p EXCEPT !.target_net = ms.target_net] IN
              IF "optimizer" \notin DOMAIN ms THEN t
              ELSE [t EXCEPT !.epsilon = Get(ms, "epsilon", cur.epsilon),
                             !.steps = Get(ms, "steps", 0),
                             !.episodes = Get(ms, "episodes", 0)]

\* database.py, lines 7-67: the Database class defines no save_model_state,
\* so line 360 raises AttributeError and the database is not written.
save_model_state(store, state) == [ok |-> FALSE, store |-> store]

\* The exception of the load is not caught.
InitializeUncaught ==
    /\ phase = "constructed"
    /\ phase' = IF get_model_state(checkpoint).ok THEN "ready" ELSE "failed"
    /\ UNCHANGED << engine, locals, pc, running, started, probe, model_state,
                    checkpoint, service >>

\* initialize, lines 78-81, and _load_model_state, lines 333-346: the
\* checkpoint is asked for; an exception is logged and initialize returns.
\* What the agent before this one tried to save is of no use from here on.
\* The lookup of line 336 raises before anything is awaited, so the call
\* runs from its first line to its last without leaving the event loop.
initialize ==
    /\ LET got == get_model_state(checkpoint)
           cur == [policy_net |-> policy_net, target_net |-> target_net,
                   epsilon |-> epsilon, steps |-> steps,
                   episodes |-> episodes]
           new == IF got.ok /\ got.val # NoneVal
                  THEN load_model_state(cur, got.val) ELSE cur
       IN  /\ policy_net' = new.policy_net
           /\ target_net' = new.target_net
           /\ epsilon' = new.epsilon
           /\ steps' = new.steps
           /\ episodes' = new.episodes
    /\ phase' = "ready"
    /\ model_state' = NoneVal
    /\ initialize_calls' = initialize_calls + 1
    /\ UNCHANGED << memory, locals, pc, running, started, probe,
                    checkpoint >>

\* main.py, lines 169-178: the host calls initialize() itself on the agent
\* it has constructed.
Initialize ==
    /\ phase = "constructed"
    /\ initialize
    /\ UNCHANGED << _running, _initialized, last_start >>

\* The exception of the save is not caught.
CleanupUncaught ==
    /\ phase = "ready"
    /\ \A c \in Calls : pc[c] = "idle"
    /\ phase' = IF save_model_state(checkpoint, NoneVal).ok
                THEN "closed" ELSE "failed"
    /\ UNCHANGED << engine, locals, pc, running, started, probe, model_state,
                    checkpoint, service >>

\* cleanup, lines 387-390, and _save_model_state, lines 348-362, called by
\* the host when no call is in flight: the dictionary is built and handed
\* to the database; an exception is logged and cleanup returns.
Cleanup ==
    /\ phase = "ready"
    /\ \A c \in Calls : pc[c] = "idle"
    /\ model_state' = [policy_net |-> policy_net, target_net |-> target_net,
                       epsilon |-> epsilon, steps |-> steps,
                       episodes |-> episodes]
    /\ checkpoint' = save_model_state(checkpoint, model_state').store
    /\ phase' = "closed"
    /\ UNCHANGED << engine, locals, pc, running, started, probe, service >>

\* __init__, lines 36-76: a new agent object takes the place of the one
\* that was cleaned up.  model_state keeps what the old one tried to save.
Construct ==
    /\ phase = "closed"
    /\ memory' = << >>
    /\ epsilon' = epsilon_start
    /\ steps' = 0
    /\ episodes' = 0
    /\ \E fresh \in Nets : policy_net' = fresh /\ target_net' = fresh
    /\ phase' = "constructed"
    /\ _running' = FALSE
    /\ _initialized' = FALSE
    /\ initialize_calls' = 0
    /\ last_start' = "none"
    /\ UNCHANGED << locals, pc, running, started, probe, model_state,
                    checkpoint >>

(***************************************************************************)
(* start() and stop(), base_agent.py, lines 30-45.  initialize() has no    *)
(* point where it leaves the event loop, so a start() runs from its first  *)
(* line to its last before any other call of the agent runs.               *)
(***************************************************************************)
\* start() without the test of line 35.
startAlwaysInitializes ==
    \/ /\ _running
       /\ last_start' = "ignored"
       /\ UNCHANGED << engine, locals, pc, running, started, probe, phase,
                       model_state, checkpoint, _running, _initialized,
                       initialize_calls >>
    \/ /\ ~_running
       /\ initialize
       /\ _initialized' = TRUE
       /\ _running' = TRUE
       /\ last_start' = "initialized"

\* Lines 30-40: nothing on a running agent (32-33); initialize() on an
\* agent that was never initialized (35-37); the flag of line 39.
start ==
    \/ /\ _running
       /\ last_start' = "ignored"
       /\ UNCHANGED << engine, locals, pc, running, started, probe, phase,
                       model_state, checkpoint, _running, _initialized,
                       initialize_calls >>
    \/ /\ ~_running
       /\ ~_initialized
       /\ initialize
       /\ _initialized' = TRUE
       /\ _running' = TRUE
       /\ last_start' = "initialized"
    \/ /\ ~_running
       /\ _initialized
       /\ _running' = TRUE
       /\ last_start' = "resumed"
       /\ UNCHANGED << engine, locals, pc, running, started, probe, phase,
                       model_state, checkpoint, _initialized,
                       initialize_calls >>

\* Lines 42-45.
stop ==
    /\ _running' = FALSE
    /\ UNCHANGED << engine, locals, pc, running, started, probe, phase,
                    model_state, checkpoint, _initialized, initialize_calls,
                    last_start >>

\* process() calls of one caller at a time on the started agent; process()
\* does not look at self._running.
Processes ==
    /\ _initialized
    /\ \E c \in Callers : ConcRuns(c) \/ ConcEnvironment(c)

StartNext == start \/ stop \/ Processes

StartSpec == Init /\ [][StartNext]_vars

\* The agent serves incidents once it is initialized.
Serve == phase = "ready" /\ Next

LifeNext == Initialize \/ Serve \/ Cleanup \/ Construct

LifeSpec == Init /\ [][LifeNext]_vars

(***************************************************************************)
(* The functions applied on their own: an input is drawn, the function is  *)
(* applied once.  The engine is left as constructed.                       *)
(***************************************************************************)
Absent == [t |-> "absent", v |-> 0]

\* The dictionary of the keys of r whose value is not Absent.
Present(r) == [k \in {k \in DOMAIN r : r[k] # Absent} |-> r[k]]

EmailValues ==
    {Absent, FullEmail, EmptyDict, NoneVal,
     [suspicious_indicators |-> Num(5)],
     [authentication_score |-> Str("high"), links |-> List(4)]}
DomainValues ==
    {Absent, FullDomain, Str("n/a"),
     [age_score |-> Num(500), is_suspicious |-> Bool(FALSE)]}
ThreatValues ==
    {Absent, FullThreat, EmptyDict, List(2), [matches |-> NoneVal]}
HistoryValues ==
    {Absent, FullHistory, NoneVal,
     [previous_incidents |-> Str("many")],
     [average_response_time |-> Num(7200)]}
UserValues ==
    {Absent, FullUser, Num(1), [is_targeted |-> Num(0)]}

\* Signal bags: any subset of the five categories, well-formed or not.
SignalBags ==
    {Present(r) : r \in [email_analysis : EmailValues,
                         domain_analysis : DomainValues,
                         threat_intelligence : ThreatValues,
                         historical_data : HistoryValues,
                         user_context : UserValues]}

\* Outcome records, as a remediation collaborator may report them.
Outcomes ==
    {Present(r) : r \in
        [status : {Absent, Str("success"), Str("failed"), Str("pending")},
         prevented_attack : {Absent, Bool(TRUE), Bool(FALSE)},
         false_positive : {Absent, Bool(TRUE), Bool(FALSE)},
         user_feedback :
             {Absent, Str("positive"), Str("negative"), Str("neutral")},
         processing_time :
             {Absent, Num(0), Num(60), Num(61), Num(300), NoneVal}]}

EncodeProbes ==
    {[op |-> "encode", in |-> b, out |-> << >>, done |-> FALSE] :
        b \in SignalBags \cup {FailedOutcome("no method")}}

RewardProbes ==
    {[op |-> "reward", in |-> o, out |-> 0, done |-> FALSE] : o \in Outcomes}

SelectProbes ==
    {[op |-> "select", eps |-> e, draw |-> d, pick |-> k, net |-> n,
      state |-> s, out |-> 0, done |-> FALSE] :
        e \in 0 .. EpsUnit, d \in Draws, k \in Actions, n \in Nets,
        s \in {ZeroVector, extract_state(FullIncident)}}

FnInit ==
    /\ memory = << >>
    /\ epsilon = epsilon_start
    /\ steps = 0
    /\ episodes = 0
    /\ policy_net \in Nets
    /\ target_net = policy_net
    /\ pc = [c \in Calls |-> "idle"]
    /\ data = [c \in Calls |-> EmptyDict]
    /\ current_state = [c \in Calls |-> << >>]
    /\ action_idx = [c \in Calls |-> 0]
    /\ result = [c \in Calls |-> EmptyDict]
    /\ reward = [c \in Calls |-> 0]
    /\ next_state = [c \in Calls |-> << >>]
    /\ running = 0
    /\ started = 0
    /\ dispatched = [c \in Calls |-> << >>]
    /\ phase = "constructed"
    /\ model_state = NoneVal
    /\ checkpoint = NoneVal
    /\ _running = FALSE
    /\ _initialized = FALSE
    /\ initialize_calls = 0
    /\ last_start = "none"
    /\ probe \in EncodeProbes \cup RewardProbes \cup SelectProbes

ApplyExtractState ==
    /\ probe.op = "encode"
    /\ ~probe.done
    /\ probe' = [probe EXCEPT !.out = extract_state(probe.in), !.done = TRUE]
    /\ UNCHANGED << engine, locals, pc, running, started, lifecycle >>

ApplyCalculateReward ==
    /\ probe.op = "reward"
    /\ ~probe.done
    /\ probe' = [probe EXCEPT !.out = calculate_reward(probe.in),
                              !.done = TRUE]
    /\ UNCHANGED << engine, locals, pc, running, started, lifecycle >>

ApplySelectAction ==
    /\ probe.op = "select"
    /\ ~probe.done
    /\ probe' = [probe EXCEPT
                    !.out = select_action(probe.eps, probe.draw, probe.pick,
                                          probe.net, probe.state),
                    !.done = TRUE]
    /\ UNCHANGED << engine, locals, pc, running, started, lifecycle >>

FnNext == ApplyExtractState \/ ApplyCalculateReward \/ ApplySelectAction

FnSpec == FnInit /\ [][FnNext]_vars

(***************************************************************************)
(* Properties.                                                             *)
(***************************************************************************)
\* The experience call c is about to push.
Pushing(c) ==
    Experience(current_state[c], action_idx[c], reward[c], next_state[c])

\* C1: the replay memory never holds more than memory_size experiences, and
\* a push into a full memory removes exactly the oldest experience: the size
\* stays memory_size, the others keep their order and the new one is last.
\* A push into a memory that is not full only adds the new one at the end.
C1_MemoryBoundedFIFO ==
    /\ [](Len(memory) <= memory_size)
    /\ [][\A c \in Calls : pc[c] = "push" /\ pc'[c] # "push" =>
            IF Len(memory) = memory_size
            THEN /\ Len(memory') = memory_size
                 /\ \A i \in 1 .. (memory_size - 1) : memory'[i] = memory[i + 1]
                 /\ memory'[memory_size] = Pushing(c)
            ELSE /\ Len(memory') = Len(memory) + 1
                 /\ \A i \in 1 .. Len(memory) : memory'[i] = memory[i]
                 /\ memory'[Len(memory')] = Pushing(c)]_vars

\* More experiences were pushed than the memory holds: one was evicted.
C1_Witness ==
    \E c \in Calls :
        /\ pc[c] \in {"train", "step"}
        /\ steps >= memory_size
        /\ Len(memory) = memory_size

C3_EpsilonRangeMonotone ==
    /\ [](epsilon_min <= epsilon /\ epsilon <= EpsUnit)
    /\ [][epsilon' <= epsilon]_vars

\* Epsilon has decayed down to the floor.
C3_Witness == epsilon = epsilon_min /\ epsilon < epsilon_start /\ steps >= 1

\* C4: with epsilon 0.0, select_action returns the argmax of the policy
\* values whatever the random draw in [0, 1) and the random index are.
C4_GreedyAtZero ==
    probe.op = "select" /\ probe.done /\ probe.eps = 0 =>
        probe.out = ArgMax(forward(probe.net, probe.state))

\* C5: for every signal bag, also the empty one, one with categories
\* missing or malformed, and an outcome record, the encoder returns a vector
\* of exactly 20 entries.
C5_LengthTwenty ==
    probe.op = "encode" /\ probe.done => Len(probe.out) = 20

\* A bag whose email category is None has been encoded.
C5_Witness ==
    /\ probe.op = "encode"
    /\ probe.done
    /\ "email_analysis" \in DOMAIN probe.in
    /\ probe.in.email_analysis = NoneVal

\* The slots of the five blocks in the vector.
BlockFirst == << 1, 7, 11, 15, 19 >>
BlockSize == << 6, 4, 4, 4, 2 >>
Slots(vec, i) == SubSeq(vec, BlockFirst[i], BlockFirst[i] + BlockSize[i] - 1)
Zeros(n) == [j \in 1 .. n |-> Num(0)]

TimeGiven(o) == "processing_time" \in DOMAIN o
WellTyped(o) == TimeGiven(o) => o.processing_time.t = "num"

Is(o, key, value) == key \in DOMAIN o /\ o[key] = value

\* C7: the reward of an outcome record is the sum of the terms that apply,
\* +1.0 success, -1.0 failed, +2.0 prevented_attack, -2.0 false_positive,
\* +0.5 positive feedback, -0.5 negative feedback (and the time penalty of
\* C8), with no clamping.
C7_RewardIsSum ==
    probe.op = "reward" /\ probe.done /\ WellTyped(probe.in) =>
        probe.out =
            (IF Is(probe.in, "status", Str("success")) THEN 10 ELSE 0)
            + (IF Is(probe.in, "status", Str("failed")) THEN -10 ELSE 0)
            + (IF Is(probe.in, "prevented_attack", Bool(TRUE)) THEN 20 ELSE 0)
            + (IF Is(probe.in, "false_positive", Bool(TRUE)) THEN -20 ELSE 0)
            + (IF Is(probe.in, "user_feedback", Str("positive")) THEN 5 ELSE 0)
            + (IF Is(probe.in, "user_feedback", Str("negative")) THEN -5 ELSE 0)
            + (IF TimeGiven(probe.in) /\ probe.in.processing_time.v > 60
               THEN -1 ELSE 0)

\* success and prevented_attack, nothing else: 3.0.
C7_Witness ==
    /\ probe.op = "reward"
    /\ probe.done
    /\ probe.in = [status |-> Str("success"), prevented_attack |-> Bool(TRUE)]
    /\ probe.out = 30

\* The record without its processing time.
WithoutTime(o) == [k \in DOMAIN o \ {"processing_time"} |-> o[k]]

\* C8: a processing time above 60 seconds costs 0.1 more than the same
\* record without a processing time; one of at most 60 costs nothing.
C8_TimePenalty ==
    probe.op = "reward" /\ probe.done /\ WellTyped(probe.in) =>
        probe.out - calculate_reward(WithoutTime(probe.in)) =
            IF TimeGiven(probe.in) /\ probe.in.processing_time.v > 60
            THEN -1 ELSE 0

\* A record of exactly 60 seconds, and no penalty in its reward.
C8_Witness ==
    /\ probe.op = "reward"
    /\ probe.done
    /\ probe.in = [status |-> Str("success"), processing_time |-> Num(60)]
    /\ probe.out = 10

\* C9: _execute_action raises nothing: a call inside it never ends in an
\* exception, and when the publish or the wait for the result fails the
\* call goes on with an outcome of status failed and an error text.
C9_ExecuteNeverRaises ==
    [][\A c \in Calls :
          pc[c] \in {"execute", "publishing", "wait"} =>
              /\ pc'[c] # "raised"
              /\ pc'[c] \notin {"execute", "publishing", "wait"} =>
                    /\ pc'[c] = "reward"
                    /\ Is(result'[c], "status", Str("failed"))
                    /\ "error" \in DOMAIN result'[c]]_vars

\* The publish failed and the call has its failed outcome.
C9_Witness ==
    \E c \in Calls : pc[c] = "reward" /\ result[c] = FailedOutcome("publish")

\* C10: a call that has dispatched its action always gets to the reward and
\* to the push of its experience, whatever the collaborators do.
C10_AlwaysReachesPush ==
    \A c \in Callers : (pc[c] = "execute") ~> (pc[c] \in {"train", "step"})

(***************************************************************************)
(* The training gate and the target network.                               *)
(***************************************************************************)
\* Call c leaves the given position in this step.
Leaves(c, at) == pc[c] = at /\ pc'[c] # at

\* C11: _train is called in an incident if and only if the memory, after
\* the incident's own experience was appended, holds at least
\* min_experiences experiences; it is called from nowhere but the position
\* right after the append.
C11_TrainIffEnoughAfterPush ==
    [][\A c \in Calls :
        /\ Leaves(c, "push") =>
              /\ memory' = deque_append(memory,
                     Experience(current_state[c], action_idx[c], reward[c],
                                next_state[c]))
              /\ pc'[c] \in {"train", "step"}
              /\ pc'[c] = "train" <=> Len(memory') >= min_experiences
        /\ (pc'[c] = "train" /\ pc[c] # "train") => pc[c] = "push"
        /\ Leaves(c, "train") => Len(memory) >= min_experiences]_vars

\* The append that brings the memory to exactly min_experiences has led to
\* training.
C11_Witness ==
    \E c \in Calls : pc[c] = "train" /\ Len(memory) = min_experiences

\* C12: the step that finds the counter on a multiple of update_frequency
\* leaves the target parameters equal to the policy parameters; no other
\* step changes the target parameters, training included.
C12_TargetOnlyOnSync ==
    [][/\ \A c \in Calls :
            (Leaves(c, "step") /\ steps' % update_frequency = 0)
                => (target_net' = policy_net' /\ policy_net' = policy_net)
       /\ target_net' # target_net =>
            \E c \in Calls : /\ Leaves(c, "step")
                             /\ steps' % update_frequency = 0
       /\ \A c \in Calls : Leaves(c, "train") => target_net' = target_net]_vars

\* Training has moved the policy in an incident that is no sync step: the
\* target still holds the older parameters.
C12_Witness ==
    \E c \in Calls : /\ pc[c] = "storing"
                     /\ steps % update_frequency # 0
                     /\ Len(memory) >= min_experiences
                     /\ target_net # policy_net

(***************************************************************************)
(* Calls in flight at once.                                                *)
(***************************************************************************)
\* Call c has selected its action and has not yet finished its push and
\* its training.
Learning(c) ==
    pc[c] \in {"execute", "publishing", "wait", "reward", "next", "push",
               "train"}

\* This step is a step of call o that writes the memory, the policy
\* parameters or epsilon.
Mutates(o) ==
    /\ pc'[o] # pc[o]
    /\ << memory, policy_net, epsilon >>' # << memory, policy_net, epsilon >>

\* C13: while a call is between its action selection and the end of its
\* push and training, no other call writes the memory, the policy
\* parameters or epsilon.
C13_SerializedPerIncident ==
    [][\A c, o \in Calls : (c # o /\ Learning(c)) => ~Mutates(o)]_vars

(***************************************************************************)
(* What reaches the caller of process().                                   *)
(***************************************************************************)
\* C14 as stated: no call of process() ends in an exception.
C14_NeverRaises == \A c \in Calls : pc[c] # "raised"

\* C14, amended: process() raises to its caller from two places only, the
\* conversion of the encoded state to a tensor and the persisting of the
\* decision record; a failed publish of the directive becomes a failed
\* outcome and a failed publish of the record is passed over.
C14_RaisesOnlyFromTensorOrPersist ==
    [][\A c \in Calls :
        /\ (pc'[c] = "raised" /\ pc[c] # "raised")
              => pc[c] \in {"tensor", "storing"}
        /\ Leaves(c, "publishing") => pc'[c] \in {"wait", "reward"}
        /\ (pc[c] \in {"notify_score", "notify_log"} /\ pc'[c] # pc[c])
              => pc'[c] \in {"notify_log", "done"}]_vars

\* The record could not be persisted: the call ends in an exception after
\* its experience was learned.
C14_Witness ==
    \E c \in Calls : pc[c] = "raised" /\ steps >= 1 /\ Len(memory) >= 1

(***************************************************************************)
(* Checkpoints.                                                            *)
(***************************************************************************)
\* This step is initialize() on a newly constructed agent.
Initializes == phase = "constructed" /\ phase' # "constructed"

\* This step is cleanup().
CleansUp == phase = "ready" /\ phase' # "ready"

\* The engine as __init__ leaves it.
Cold ==
    /\ epsilon = epsilon_start
    /\ steps = 0
    /\ episodes = 0
    /\ memory = << >>
    /\ target_net = policy_net

\* C15: an agent that is initialized after another one saved its state has
\* the epsilon, the step count, the episode count and the policy
\* parameters that were saved.
C15_RoundTrip ==
    [][(Initializes /\ model_state # NoneVal) =>
          /\ epsilon' = model_state.epsilon
          /\ steps' = model_state.steps
          /\ episodes' = model_state.episodes
          /\ policy_net' = model_state.policy_net]_vars

\* C16: with no checkpoint in the database, initialize() returns without
\* an exception and the engine is as constructed: epsilon 1.0, no steps, no
\* episodes, an empty memory, the target equal to the policy.
C16_ColdStart ==
    [][(Initializes /\ checkpoint = NoneVal) =>
          /\ phase' = "ready"
          /\ Cold'
          /\ policy_net' = policy_net]_vars

\* An agent was initialized with no checkpoint and is ready.
C16_Witness ==
    phase = "ready" /\ checkpoint = NoneVal /\ started = 0 /\ Cold

\* C17: a save that fails does not raise to cleanup() and leaves the
\* policy and target parameters, epsilon, the counters and the memory as
\* they were.
C17_FailedSaveChangesNothing ==
    [][(CleansUp /\ ~save_model_state(checkpoint, model_state').ok) =>
          /\ phase' = "closed"
          /\ engine' = engine]_vars

\* cleanup() has returned on an engine that had learned, and nothing was
\* stored.
C17_Witness ==
    /\ phase = "closed"
    /\ steps >= 1
    /\ Len(memory) >= 1
    /\ model_state # NoneVal
    /\ checkpoint = NoneVal

(***************************************************************************)
(* Directives and the action catalog.                                      *)
(***************************************************************************)
\* The one directive the claim names for an action index, none for 4.
Expected(idx) ==
    CASE idx = 0 -> << [channel |-> "auto_response", action |-> "block_sender",
                        kind |-> "block"] >>
      [] idx = 1 -> << [channel |-> "auto_response",
                        action |-> "quarantine_message",
                        kind |-> "quarantine"] >>
      [] idx = 2 -> << [channel |-> "alert", action |-> "notify_user",
                        kind |-> "user_notification"] >>
      [] idx = 3 -> << [channel |-> "auto_response",
                        action |-> "monitor_sender", kind |-> "monitor"] >>
      [] OTHER -> << >>

\* C18: the execution of an incident hands exactly one directive to the
\* broker for block_sender, quarantine_message, notify_user and
\* monitor_sender, addressed to the collaborator of that action, and none
\* for no_action; nothing is handed over at any other point of the
\* incident, in particular not after a failure.
C18_OneDirectiveNoRetry ==
    [][\A c \in Calls :
        /\ Leaves(c, "execute") =>
              /\ dispatched[c] = << >>
              /\ dispatched'[c] = Expected(action_idx[c])
        /\ dispatched'[c] # dispatched[c] =>
              \/ pc[c] = "execute"
              \/ pc'[c] = "idle" /\ dispatched'[c] = << >>]_vars

\* The publish of the directive failed and the incident went on to the
\* persisting of its record with that single directive.
C18_Witness ==
    \E c \in Calls : /\ pc[c] = "storing"
                     /\ result[c] = FailedOutcome("publish")
                     /\ Len(dispatched[c]) = 1

\* C19: the action index of every call and of every stored experience lies
\* in 0 .. 4, and the catalog names the indices in the fixed order
\* block_sender, quarantine_message, notify_user, monitor_sender,
\* no_action, whatever was processed, trained, loaded or saved before.
C19_ActionIndexInCatalog ==
    /\ \A c \in Calls : action_idx[c] \in 0 .. 4
    /\ \A i \in 1 .. Len(memory) : memory[i].action \in 0 .. 4
    /\ << ActionName(0), ActionName(1), ActionName(2), ActionName(3),
          ActionName(4) >>
         = << "block_sender", "quarantine_message", "notify_user",
              "monitor_sender", "no_action" >>
    /\ \A c \in Calls : \A i \in 1 .. Len(dispatched[c]) :
          dispatched[c][i].action = ActionName(action_idx[c])

\* An engine that stored an experience with the last index of the catalog
\* has been through cleanup and its save.
C19_Witness ==
    /\ phase = "closed"
    /\ model_state # NoneVal
    /\ Len(memory) >= 1
    /\ memory[Len(memory)].action = 4

(***************************************************************************)
(* The step counter.                                                       *)
(***************************************************************************)
\* C20 as stated: the counter counts training steps, so while the memory
\* of a cold engine is below min_experiences, and no training has run, the
\* counter is still 0.
C20_StepPerTraining == Len(memory) < min_experiences => steps = 0

\* C20, amended: the counter increases by exactly one in every incident
\* that reaches the push, with or without training, and nowhere else; the
\* target is overwritten with the policy in exactly the incidents that
\* bring the counter to a multiple of update_frequency.
C20_StepPerIncident ==
    [][/\ \A c \in Calls :
            /\ Leaves(c, "push") => pc'[c] \in {"train", "step"}
            /\ Leaves(c, "train") => pc'[c] = "step"
            /\ Leaves(c, "step") =>
                  /\ steps' = steps + 1
                  /\ target_net' = IF steps' % update_frequency = 0
                                   THEN policy_net ELSE target_net
       /\ steps' # steps => \E c \in Calls : Leaves(c, "step")]_vars

\* The first incident of a cold engine ran no training and has moved the
\* counter.
C20_Witness ==
    \E c \in Calls : /\ pc[c] = "storing"
                     /\ Len(memory) < min_experiences
                     /\ steps = 1

(***************************************************************************)
(* The phases of learning.                                                 *)
(***************************************************************************)
\* C21: the memory never gets shorter, so once it holds min_experiences
\* every incident that pushes goes on to a training step, and that step
\* finds a full batch.
C21_LearningNeverRegresses ==
    [][/\ Len(memory') >= Len(memory)
       /\ \A c \in Calls :
            /\ (Leaves(c, "push") /\ Len(memory) >= min_experiences)
                  => pc'[c] = "train"
            /\ Leaves(c, "train") => Len(memory) >= batch_size]_vars

\* An incident after the one that brought the memory to min_experiences
\* is in its training step.
C21_Witness ==
    \E c \in Calls : /\ pc[c] = "train"
                     /\ steps >= min_experiences
                     /\ Len(memory) >= min_experiences

\* A training step runs to its end in this step.
TrainingCompletes == \E c \in Calls : Train(c)

\* The target is overwritten with the policy in this step.
Syncs ==
    \E c \in Calls : /\ Leaves(c, "step")
                     /\ steps' % update_frequency = 0
                     /\ target_net' = policy_net

\* C22: if incidents keep being processed, with training steps that run
\* to their end, then from some point on epsilon equals the floor for
\* ever, and the target keeps being synced again and again.
C22_EventuallyConverging ==
    ([]<><<TrainingCompletes>>_vars) =>
        (<>[](epsilon = epsilon_min) /\ []<><<Syncs>>_vars)

\* Epsilon is at the floor and a sync has just been done.
C22_Witness ==
    \E c \in Calls : /\ pc[c] = "storing"
                     /\ epsilon = epsilon_min
                     /\ steps % update_frequency = 0
                     /\ target_net = policy_net

(***************************************************************************)
(* One incident from its first step to its last.                           *)
(***************************************************************************)
\* The positions a call may go to from a position, in the order of the
\* claim: encode, select, dispatch and outcome, reward, next state, push,
\* training if due, counter and sync, then persisting and publishing.
After(at) ==
    CASE at = "idle" -> {"tensor"}
      [] at = "tensor" -> {"select", "raised"}
      [] at = "select" -> {"execute"}
      [] at = "execute" -> {"publishing", "wait"}
      [] at = "publishing" -> {"wait", "reward"}
      [] at = "wait" -> {"reward"}
      [] at = "reward" -> {"next"}
      [] at = "next" -> {"push"}
      [] at = "push" -> {"train", "step"}
      [] at = "train" -> {"step"}
      [] at = "step" -> {"storing"}
      [] at = "storing" -> {"notify_score", "raised"}
      [] at = "notify_score" -> {"notify_log", "done"}
      [] at = "notify_log" -> {"done"}
      [] OTHER -> {"idle"}

\* The call is persisting or publishing its record, or has done so.
Recording(c) == pc[c] \in {"storing", "notify_score", "notify_log", "done"}

\* C23: a call goes through its steps in the one order encode, select,
\* dispatch and outcome, reward, next state, push, training if due,
\* counter and sync, and skips none of them; when it persists and
\* publishes its record, the experience made of its encoded state, its
\* selected action, the reward of its outcome and its next state is the
\* newest of the memory and the counter has counted it.
C23_StepsInOrder ==
    [][\A c \in Callers :
        /\ pc'[c] # pc[c] => pc'[c] \in After(pc[c])
        /\ Recording(c)' =>
              /\ current_state'[c] = extract_state(data'[c])
              /\ action_idx'[c] \in Actions
              /\ reward'[c] = calculate_reward(result'[c])
              /\ next_state'[c] = extract_state(result'[c])
              /\ Len(memory') >= 1
              /\ memory'[Len(memory')] =
                    Experience(current_state'[c], action_idx'[c],
                               reward'[c], next_state'[c])
              /\ steps' >= 1]_vars

\* A call has published its record after a training step.
C23_Witness ==
    \E c \in Callers : /\ pc[c] = "done"
                       /\ Len(memory) >= min_experiences
                       /\ steps >= min_experiences

Failed(c) == Is(result[c], "status", Str("failed"))

\* C25: a dispatch or an outcome wait that fails is not raised out of the
\* call: the call goes on to the reward with a failed outcome, the reward
\* carries the penalty of -1.0, the experience with that reward is pushed
\* and the training trigger is evaluated on the memory after the push.
C25_FailedOutcomeFlowsOn ==
    [][\A c \in Calls :
        /\ (Leaves(c, "publishing") /\ pc'[c] # "wait")
              => (pc'[c] = "reward" /\ Failed(c)')
        /\ (Leaves(c, "wait") /\ result'[c] # result[c])
              => (pc'[c] = "reward" /\ Failed(c)')
        /\ (Leaves(c, "reward") /\ Failed(c))
              => (pc'[c] = "next" /\ reward'[c] = -10)
        /\ (Leaves(c, "next") /\ Failed(c)) => pc'[c] = "push"
        /\ (Leaves(c, "push") /\ Failed(c)) =>
              /\ Len(memory') >= 1
              /\ memory'[Len(memory')].reward = -10
              /\ memory'[Len(memory')].action = action_idx[c]
              /\ pc'[c] = IF Len(memory') >= min_experiences
                          THEN "train" ELSE "step"]_vars

\* The publish of the directive failed, and the incident is in the
\* training step that its push has triggered.
C25_Witness ==
    \E c \in Calls : /\ pc[c] = "train"
                     /\ result[c] = FailedOutcome("publish")
                     /\ reward[c] = -10
                     /\ memory[Len(memory)].reward = -10

\* C26: a training step that fails is passed over without an exception:
\* the memory and epsilon are what they were before it, the call goes on
\* to the counter and the sync, and as the memory still holds
\* min_experiences the next incident that pushes comes to a training step
\* again.
C26_FailedTrainingSkipped ==
    [][\A c \in Calls :
        /\ TrainFails(c) =>
              /\ memory' = memory
              /\ epsilon' = epsilon
              /\ pc'[c] = "step"
              /\ Len(memory') >= min_experiences
        /\ (Leaves(c, "push") /\ Len(memory) >= min_experiences)
              => pc'[c] = "train"]_vars

\* Every training step so far has failed, epsilon is where it started,
\* and a later incident is in its training step.
C26_Witness ==
    \E c \in Calls : /\ pc[c] = "train"
                     /\ steps >= min_experiences
                     /\ epsilon = epsilon_start

(***************************************************************************)
(* The memory and the step counter.                                        *)
(***************************************************************************)
Min(a, b) == IF a <= b THEN a ELSE b

\* C27: whenever no call holds the event loop, so at every point where
\* another call or the caller can look at the engine, the memory holds
\* min(memory_size, steps) experiences, whatever calls are in flight and
\* however the calls before ended.
C27_MemoryMatchesSteps ==
    running = 0 => Len(memory) = Min(memory_size, steps)

\* Two calls are in flight after more pushes than the memory can hold:
\* one has ended in an exception, the other waits for the database.
C27_Witness ==
    /\ running = 0
    /\ steps > memory_size
    /\ Len(memory) = memory_size
    /\ \E c, o \in ConcCallers : /\ c # o
                                 /\ pc[c] = "raised"
                                 /\ pc[o] = "storing"

\* The keys the load reads from the dictionary of the database.
LoadedKeys == {"policy_net", "target_net", "epsilon", "steps", "episodes"}

Learned(c) ==
    [state |-> current_state[c], action |-> action_idx[c],
     reward |-> reward[c], next_state |-> next_state[c]]

\* The call is publishing its decision record.
Notifying(c) == pc[c] \in {"notify_score", "notify_log"}

\* C29: a call starts to persist its record only when its experience is in
\* the memory and the counter has counted it; a persist that fails raises
\* to the caller with the memory, the counter and the rest of the engine
\* as they were, without any publish of the record; the record is
\* published only after a persist that returned, and a publish that fails
\* ends in the return of the record.
C29_LearnedBeforePersisted ==
    [][\A c \in Callers :
        /\ (pc'[c] = "storing" /\ pc[c] # "storing") =>
              /\ steps' = steps + 1
              /\ memory' = memory
              /\ memory # << >>
              /\ memory[Len(memory)] = Learned(c)
        /\ (Leaves(c, "storing") /\ pc'[c] # "notify_score") =>
              /\ pc'[c] = "raised"
              /\ engine' = engine
              /\ steps >= 1
              /\ memory # << >>
              /\ memory[Len(memory)] = Learned(c)
        /\ (Notifying(c)' /\ ~Notifying(c)) => pc[c] = "storing"
        /\ (Notifying(c) /\ pc'[c] # pc[c]) =>
              /\ pc'[c] \in {"notify_log", "done"}
              /\ engine' = engine]_vars

\* The persist of the second incident failed: the call has raised, both
\* experiences are in the memory, the newest is the one of the call, and
\* the counter has counted both.
C29_Witness ==
    \E c \in Callers :
        /\ pc[c] = "raised"
        /\ steps = 2
        /\ Len(memory) = 2
        /\ memory[Len(memory)] = Learned(c)

=============================================================================
